---- MODULE Spec2Model ----
(***************************************************************************)
(* CryptoBuddy (src/crypto_bot.py): the catalog of cryptocurrency records, *)
(* the mock price oracle with its Streamlit caches, the trend and          *)
(* sustainability rankings, the risk-profile recommendation, the catalog   *)
(* refresh and the AI-insight call.  src/Chatbott.py is an earlier revision *)
(* of the same class; its _get_live_price and its recommend_investment are *)
(* modelled beside the later ones and its analyze_trends is the            *)
(* rising-only variant.                                                    *)
(*                                                                         *)
(* Encodings.  A Python str that the code only compares is a TLA+ string;  *)
(* the risk profile, which the code transforms with str.lower(), is a      *)
(* sequence of one-character strings.  Money is in cents, a sustainability *)
(* score is in tenths (3/10 is 3), time is in whole seconds.  A market_cap *)
(* is a tagged value, Category("high") for the str "high" and Usd(n) for a *)
(* number of n billion USD: Python compares a number and a str unequal.    *)
(* A catalog (a dict, which iterates in insertion order) is the sequence   *)
(* of its entries, each carrying its key in the field coin.                *)
(*                                                                         *)
(* src/crypto_bot.py does not compile as written: lines 66-69 leave a      *)
(* parenthesis open.  _get_live_price is modelled with the parenthesis     *)
(* closed at the end of each line, base * (0.995 + 0.01 * (t % 10) / 10).  *)
(***************************************************************************)
EXTENDS Integers, Sequences, FiniteSets, TLC

VARIABLES
    heap,              \* the dict objects built so far, by identity (index)
    crypto_db,         \* self.crypto_db: a reference into heap
    last_updated,      \* self.last_updated
    now,               \* time.time(), whole seconds
    ticks,             \* how many times the clock has advanced
    price_cache,       \* st.cache_data store of _get_live_price, by coin_id
    captured,          \* a caller's reference to a catalog (0: none held)
    seen,              \* what the caller read through it when capturing
    deepseek_api_key,  \* self.deepseek_api_key
    insight_cache,     \* st.cache_data store of get_ai_insight, by question
    network_calls,     \* requests.post calls made so far
    op,                \* the last operation called, with its inputs
    ret,               \* what it returned
    raised             \* whether it let an exception out to its caller

vars == <<heap, crypto_db, last_updated, now, ticks, price_cache, captured, seen,
          deepseek_api_key, insight_cache, network_calls, op, ret, raised>>

-----------------------------------------------------------------------------
(* Bounds *)

MaxCoins == 2

MaxRefresh == 1

MaxTicks == 1

MaxCalls == 2

MaxFailures == 1

None == "None"

-----------------------------------------------------------------------------
(* Values *)

Category(c) == [category |-> c]

Usd(n) == [usd_bn |-> n]

IsUsd(mc) == DOMAIN mc = {"usd_bn"}

Trends == {"rising", "stable", "volatile", "falling"}

MarketCaps == {Category("medium"), Category("high"), Usd(20), Usd(60), Usd(1300)}

Scores == {3, 6}

CoinNames == <<"Bitcoin", "Ethereum", "Cardano", "Solana">>

Entry(coin, trend, cap, score, price) ==
    [coin |-> coin, price_trend |-> trend, market_cap |-> cap,
     sustainability_score |-> score, current_price |-> price]

-----------------------------------------------------------------------------
(* str.lower() and the risk-profile strings *)

UpperCase == <<"A", "B", "C", "D", "E", "F", "G", "H", "I", "J", "K", "L", "M",
               "N", "O", "P", "Q", "R", "S", "T", "U", "V", "W", "X", "Y", "Z">>

LowerCase == <<"a", "b", "c", "d", "e", "f", "g", "h", "i", "j", "k", "l", "m",
               "n", "o", "p", "q", "r", "s", "t", "u", "v", "w", "x", "y", "z">>

lower_char(c) ==
    IF \E i \in 1..Len(UpperCase) : UpperCase[i] = c
    THEN LowerCase[CHOOSE i \in 1..Len(UpperCase) : UpperCase[i] = c]
    ELSE c

lower(s) == [i \in 1..Len(s) |-> lower_char(s[i])]

s_conservative == <<"c", "o", "n", "s", "e", "r", "v", "a", "t", "i", "v", "e">>

s_aggressive == <<"a", "g", "g", "r", "e", "s", "s", "i", "v", "e">>

s_moderate == <<"m", "o", "d", "e", "r", "a", "t", "e">>

in_Conservative == <<"C", "o", "n", "s", "e", "r", "v", "a", "t", "i", "v", "e">>

in_padded_Conservative ==
    <<" ", "C", "o", "n", "s", "e", "r", "v", "a", "t", "i", "v", "e", " ">>

in_AGGRESSIVE == <<"A", "G", "G", "R", "E", "S", "S", "I", "V", "E">>

in_padded_aggressive == <<"a", "g", "g", "r", "e", "s", "s", "i", "v", "e", " ">>

in_unknownprofile ==
    <<"u", "n", "k", "n", "o", "w", "n", "p", "r", "o", "f", "i", "l", "e">>

ProfileInputs ==
    {s_conservative, s_aggressive, s_moderate, in_Conservative,
     in_padded_Conservative, in_AGGRESSIVE, in_padded_aggressive,
     in_unknownprofile, <<>>}

-----------------------------------------------------------------------------
(* The classification and recommendation functions, over a catalog db *)

Entries(db) == {db[i] : i \in 1..Len(db)}

Coins(db) == {e.coin : e \in Entries(db)}

Position(db, coin) == CHOOSE i \in 1..Len(db) : db[i].coin = coin

Lookup(db, coin) == db[Position(db, coin)]

\* [coin for coin in db if test(db[coin])]
RECURSIVE Comprehension(_, _)
Comprehension(db, keep) ==
    IF db = <<>> THEN <<>>
    ELSE LET rest == Comprehension(Tail(db), keep)
         IN  IF Head(db).coin \in keep THEN <<Head(db).coin>> \o rest ELSE rest

analyze_trends_rising_only(db) ==
    Comprehension(db, {e.coin : e \in {x \in Entries(db) :
                                           x.price_trend = "rising"}})

analyze_trends(db) ==
    Comprehension(db, {e.coin : e \in {x \in Entries(db) :
                                           x.price_trend \in {"rising", "volatile"}}})

\* sorted(..., key=score, reverse=True) is stable: pairs with equal scores keep
\* their order.  x goes after every pair whose score is >= its own.
RECURSIVE insert_desc(_, _)
insert_desc(s, x) ==
    IF s = <<>> THEN <<x>>
    ELSE IF Head(s)[2] >= x[2] THEN <<Head(s)>> \o insert_desc(Tail(s), x)
         ELSE <<x>> \o s

\* sorted(..., key=score)[::-1]: descending, pairs with equal scores reversed.
RECURSIVE insert_desc_reversed(_, _)
insert_desc_reversed(s, x) ==
    IF s = <<>> THEN <<x>>
    ELSE IF Head(s)[2] > x[2] THEN <<Head(s)>> \o insert_desc_reversed(Tail(s), x)
         ELSE <<x>> \o s

RECURSIVE sorted_reversed(_)
sorted_reversed(pairs) ==
    IF pairs = <<>> THEN <<>>
    ELSE insert_desc_reversed(sorted_reversed(SubSeq(pairs, 1, Len(pairs) - 1)),
                              pairs[Len(pairs)])

RECURSIVE sorted_desc(_)
sorted_desc(pairs) ==
    IF pairs = <<>> THEN <<>>
    ELSE insert_desc(sorted_desc(SubSeq(pairs, 1, Len(pairs) - 1)), pairs[Len(pairs)])

get_sustainable_coins_unstable(db) ==
    sorted_reversed([i \in 1..Len(db) |-> <<db[i].coin, db[i].sustainability_score>>])

get_sustainable_coins(db) ==
    sorted_desc([i \in 1..Len(db) |-> <<db[i].coin, db[i].sustainability_score>>])

recommend_investment(db, risk_profile) ==
    LET profile == lower(risk_profile)
        entries == Entries(db)
    IN  IF profile = s_conservative
        THEN Comprehension(db, {e.coin : e \in {x \in entries :
                 x.market_cap = Category("high")}})
        ELSE IF profile = s_aggressive
        THEN Comprehension(db, {e.coin : e \in {x \in entries :
                 x.price_trend = "rising"}})
        ELSE Comprehension(db, {e.coin : e \in {x \in entries :
                 /\ x.price_trend \in {"rising", "stable"}
                 /\ x.market_cap \in {Category("high"), Category("medium")}}})

\* the list comprehension of Chatbott.py's recommend_investment
Chatbott_profitable(db) ==
    Comprehension(db, {e.coin : e \in {x \in Entries(db) :
        /\ x.price_trend = "rising"
        /\ x.market_cap \in {Category("high"), Category("medium")}}})

\* list(db.keys())
keys(db) == [i \in 1..Len(db) |-> db[i].coin]

\* profitable or list(self.crypto_db.keys()): an empty list is falsy
Chatbott_recommend_investment(db) ==
    IF Chatbott_profitable(db) # <<>> THEN Chatbott_profitable(db) ELSE keys(db)

-----------------------------------------------------------------------------
(* The price oracle *)

PRICE_TTL == 300

INSIGHT_TTL == 60

\* mock_prices before the jitter, in cents
mock_base == [bitcoin |-> 6743218, ethereum |-> 328745, cardano |-> 45,
              solana |-> 14567]

CoinIds == DOMAIN mock_base

UnknownIds == {"dogecoin"}

\* the ids a caller asks _get_live_price for directly
LookupIds == {"bitcoin"} \cup UnknownIds

\* round(x, 2) of x = q + r / d cents (0 <= r < d): to the nearest cent, a tie to
\* the even one
round_cents(q, r, d) ==
    IF 2 * r < d THEN q
    ELSE IF 2 * r > d THEN q + 1
    ELSE IF q % 2 = 0 THEN q ELSE q + 1

\* base * (0.995 + 0.01 * (t % 10) / 10), rounded: base * f / 1000 with
\* f = 995 + t % 10, the product taken in two parts to stay within 32 bits
jittered(base, t) ==
    LET f == 995 + (t % 10)
        low == (base % 1000) * f
    IN  round_cents((base \div 1000) * f + (low \div 1000), low % 1000, 1000)

\* The body without its try/except: a failure reaches the caller.
get_live_price_unguarded(coin_id, t, fails) ==
    IF fails THEN [raised |-> TRUE, value |-> 0]
    ELSE [raised |-> FALSE,
          value |-> IF coin_id \in CoinIds THEN jittered(mock_base[coin_id], t)
                    ELSE round_cents(0, 0, 1)]

\* _get_live_price's body.  fails: something in the try block raises.
get_live_price(coin_id, t, fails) ==
    IF fails THEN [raised |-> FALSE, value |-> 0]
    ELSE [raised |-> FALSE,
          value |-> IF coin_id \in CoinIds THEN jittered(mock_base[coin_id], t)
                    ELSE round_cents(0, 0, 1)]

\* Chatbott.py's _get_live_price: the table as it stands, no jitter, no cache
Chatbott_mock_prices == [bitcoin |-> 6743218, ethereum |-> 328745, cardano |-> 45]

Chatbott_get_live_price(coin_id) ==
    IF coin_id \in DOMAIN Chatbott_mock_prices THEN Chatbott_mock_prices[coin_id]
    ELSE 0

\* @st.cache_data(ttl=...): an entry answers until it is ttl seconds old.  A cache
\* slot is <<>> or <<[value, at]>>.
Fresh(slot, t, ttl) == slot # <<>> /\ t - slot[1].at < ttl

EmptyPriceCache == [id \in CoinIds \cup UnknownIds |-> <<>>]

\* _get_live_price as its callers see it, through the cache
cached_live_price(cache, coin_id, t, fails) ==
    IF Fresh(cache[coin_id], t, PRICE_TTL)
    THEN [raised |-> FALSE, value |-> cache[coin_id][1].value,
          slot |-> cache[coin_id], computed |-> FALSE]
    ELSE LET r == get_live_price(coin_id, t, fails)
         IN  [raised |-> r.raised, value |-> r.value,
              slot |-> IF r.raised THEN <<>> ELSE <<[value |-> r.value, at |-> t]>>,
              computed |-> TRUE]

-----------------------------------------------------------------------------
(* The catalog *)

\* the attribute tables of _initialize_crypto_db
catalog_table ==
    << [coin |-> "Bitcoin",  id |-> "bitcoin",  price_trend |-> "rising",
        market_cap |-> Category("high"),   sustainability_score |-> 3],
       [coin |-> "Ethereum", id |-> "ethereum", price_trend |-> "stable",
        market_cap |-> Category("high"),   sustainability_score |-> 6],
       [coin |-> "Cardano",  id |-> "cardano",  price_trend |-> "rising",
        market_cap |-> Category("medium"), sustainability_score |-> 8],
       [coin |-> "Solana",   id |-> "solana",   price_trend |-> "volatile",
        market_cap |-> Category("medium"), sustainability_score |-> 5] >>

\* _initialize_crypto_db at time t; failing: the ids whose price computation
\* raises inside _get_live_price.  The four ids differ, so each call sees the
\* cache as it was.
initialize_crypto_db(cache, t, failing) ==
    LET ids == {catalog_table[i].id : i \in 1..Len(catalog_table)}
        call == [id \in ids |-> cached_live_price(cache, id, t, id \in failing)]
    IN  [raised |-> \E id \in ids : call[id].raised,
         db |-> [i \in 1..Len(catalog_table) |->
                    Entry(catalog_table[i].coin, catalog_table[i].price_trend,
                          catalog_table[i].market_cap,
                          catalog_table[i].sustainability_score,
                          call[catalog_table[i].id].value)],
         cache |-> [id \in DOMAIN cache |->
                       IF id \in ids THEN call[id].slot ELSE cache[id]],
         computed |-> {id \in ids : call[id].computed}]

\* self.crypto_db.update(...): the dict every holder sees is overwritten.
update_in_place(h, ref, db) == [heap |-> [h EXCEPT ![ref] = db], ref |-> ref]

\* self.crypto_db = self._initialize_crypto_db(): the name is bound to the new
\* dict; the dict it was bound to is left as it is.
bind_new(h, ref, db) == [heap |-> Append(h, db), ref |-> Len(h) + 1]

-----------------------------------------------------------------------------
(* The AI-insight call *)

Str(text) == [type |-> "str", text |-> text]

\* a value that is not a str (None, a number, a dict), returned as it came
NonStr(from) == [type |-> "non_str", from |-> from]

\* [lock], [globe], [cross], [warning] stand for the emoji of the source
MSG_NO_KEY == "[lock] API key not configured - using simulated insights"

MSG_NETWORK == "[globe] Network error: "

MSG_UNEXPECTED == "[cross] Unexpected error: "

MSG_FORMAT == "[warning] Received unexpected API response format"

ApiKeys == {None, "", "sk-test"}

Questions == {"q1", "q2"}

\* What one requests.post attempt can come to.  A body that is no JSON makes
\* response.json() raise a RequestException or a plain ValueError, by the
\* version of requests.  choices: absent, an empty list, a list whose first
\* element holds message.content as a str or as something else, a list whose
\* first element has no message.content, or no list (len() raises).
Outcomes ==
    {[kind |-> k] : k \in {"timeout", "connection_error", "http_error"}}
    \cup {[kind |-> "non_json", as |-> e] : e \in {"RequestException", "ValueError"}}
    \cup {[kind |-> "json", top |-> t] : t \in {"array", "number"}}
    \cup [kind : {"json"}, top : {"object"},
          choices : {"absent", "empty", "content_str", "content_non_str",
                     "no_content", "no_list"},
          output : {"absent", "str", "non_str"}]

\* the lines of get_ai_insight after the key test: one attempt, then the parse
insight_attempt(o) ==
    IF o.kind \in {"timeout", "connection_error", "http_error"}
    THEN Str(MSG_NETWORK \o o.kind)
    ELSE IF o.kind = "non_json"
    THEN (IF o.as = "RequestException" THEN Str(MSG_NETWORK \o "JSONDecodeError")
          ELSE Str(MSG_UNEXPECTED \o "JSONDecodeError"))
    ELSE IF o.top = "number" THEN Str(MSG_UNEXPECTED \o "TypeError")
    ELSE IF o.top = "array" THEN Str(MSG_FORMAT)
    ELSE IF o.choices = "no_list" THEN Str(MSG_UNEXPECTED \o "TypeError")
    ELSE IF o.choices = "content_str" THEN Str("choices[0].message.content")
    ELSE IF o.choices = "content_non_str" THEN NonStr("choices[0].message.content")
    ELSE IF o.choices = "no_content" THEN Str(MSG_UNEXPECTED \o "KeyError")
    ELSE IF o.output = "str" THEN Str("output")
    ELSE IF o.output = "non_str" THEN NonStr("output")
    ELSE Str(MSG_FORMAT)

\* get_ai_insight's body
get_ai_insight(key, question, o) ==
    IF key = None \/ key = ""
    THEN [raised |-> FALSE, value |-> Str(MSG_NO_KEY), attempts |-> 0]
    ELSE [raised |-> FALSE, value |-> insight_attempt(o), attempts |-> 1]

EmptyInsightCache == [q \in Questions |-> <<>>]

\* get_ai_insight as its callers see it, through the cache (keyed by the
\* question alone: _self is left out of the key)
cached_ai_insight(cache, key, question, o, t) ==
    IF Fresh(cache[question], t, INSIGHT_TTL)
    THEN [raised |-> FALSE, value |-> cache[question][1].value, attempts |-> 0,
          slot |-> cache[question], computed |-> FALSE]
    ELSE LET r == get_ai_insight(key, question, o)
         IN  [raised |-> r.raised, value |-> r.value, attempts |-> r.attempts,
              slot |-> IF r.raised THEN <<>> ELSE <<[value |-> r.value, at |-> t]>>,
              computed |-> TRUE]

-----------------------------------------------------------------------------
(* The program *)

\* the price computations that may fail during one build
FailureSets == {F \in SUBSET CoinIds : Cardinality(F) <= MaxFailures}

\* CryptoBuddy.__init__ at time 0, with the key os.getenv gives
Constructed(failing, key) ==
    LET b == initialize_crypto_db(EmptyPriceCache, 0, failing)
    IN  /\ heap = <<b.db>>
        /\ crypto_db = 1
        /\ last_updated = None
        /\ now = 0
        /\ ticks = 0
        /\ price_cache = b.cache
        /\ captured = 0
        /\ seen = <<>>
        /\ deepseek_api_key = key
        /\ insight_cache = EmptyInsightCache
        /\ network_calls = 0
        /\ op = [name |-> "__init__", computed |-> b.computed,
                 failed |-> failing \cap b.computed]
        /\ ret = None
        /\ raised = b.raised

Init == \E failing \in FailureSets, key \in ApiKeys : Constructed(failing, key)

\* time passes between two calls: d seconds
Elapses(d) ==
    /\ ticks < MaxTicks
    /\ now' = now + d
    /\ ticks' = ticks + 1
    /\ UNCHANGED <<heap, crypto_db, last_updated, price_cache, captured, seen,
                   deepseek_api_key, insight_cache, network_calls, op, ret, raised>>

\* a second; just over the minute get_ai_insight's answers are kept; just over
\* the five minutes _get_live_price's are
TickSecond == Elapses(1)

TickMinute == Elapses(INSIGHT_TTL + 1)

TickFiveMinutes == Elapses(PRICE_TTL + 1)

\* refresh_data
RefreshData ==
    /\ Len(heap) <= MaxRefresh
    /\ \E failing \in FailureSets :
          LET b == initialize_crypto_db(price_cache, now, failing)
              n == bind_new(heap, crypto_db, b.db)
          IN  /\ op' = [name |-> "refresh_data", computed |-> b.computed,
                        failed |-> failing \cap b.computed]
              /\ raised' = b.raised
              /\ price_cache' = b.cache
              /\ IF b.raised
                 THEN UNCHANGED <<heap, crypto_db, last_updated, ret>>
                 ELSE /\ heap' = n.heap
                      /\ crypto_db' = n.ref
                      /\ last_updated' = now
                      /\ ret' = "Data refreshed successfully!"
    /\ UNCHANGED <<now, ticks, captured, seen, deepseek_api_key, insight_cache,
                   network_calls>>

\* a caller keeps bot.crypto_db (the dict itself, and so each record in it)
Capture ==
    /\ captured' = crypto_db
    /\ seen' = heap[crypto_db]
    /\ UNCHANGED <<heap, crypto_db, last_updated, now, ticks, price_cache,
                   deepseek_api_key, insight_cache, network_calls, op, ret, raised>>

\* a direct call of _get_live_price
GetLivePrice ==
    \E id \in LookupIds, fails \in BOOLEAN :
        LET r == cached_live_price(price_cache, id, now, fails)
        IN  /\ op' = [name |-> "_get_live_price", arg |-> id,
                      failed |-> IF fails /\ r.computed THEN {id} ELSE {}]
            /\ ret' = r.value
            /\ raised' = r.raised
            /\ price_cache' = [price_cache EXCEPT ![id] = r.slot]
            /\ UNCHANGED <<heap, crypto_db, last_updated, now, ticks, captured, seen,
                           deepseek_api_key, insight_cache, network_calls>>

\* a direct call of Chatbott.py's _get_live_price
ChatbottGetLivePrice ==
    \E id \in LookupIds :
        /\ op' = [name |-> "Chatbott._get_live_price", arg |-> id, failed |-> {}]
        /\ ret' = Chatbott_get_live_price(id)
        /\ raised' = FALSE
        /\ UNCHANGED <<heap, crypto_db, last_updated, now, ticks, price_cache,
                       captured, seen, deepseek_api_key, insight_cache,
                       network_calls>>

AnalyzeTrends ==
    /\ op' = [name |-> "analyze_trends"]
    /\ ret' = analyze_trends(heap[crypto_db])
    /\ raised' = FALSE
    /\ UNCHANGED <<heap, crypto_db, last_updated, now, ticks, price_cache, captured,
                   seen, deepseek_api_key, insight_cache, network_calls>>

GetSustainableCoins ==
    /\ op' = [name |-> "get_sustainable_coins"]
    /\ ret' = get_sustainable_coins(heap[crypto_db])
    /\ raised' = FALSE
    /\ UNCHANGED <<heap, crypto_db, last_updated, now, ticks, price_cache, captured,
                   seen, deepseek_api_key, insight_cache, network_calls>>

RecommendInvestment ==
    \E p \in ProfileInputs :
        /\ op' = [name |-> "recommend_investment", arg |-> p]
        /\ ret' = recommend_investment(heap[crypto_db], p)
        /\ raised' = FALSE
        /\ UNCHANGED <<heap, crypto_db, last_updated, now, ticks, price_cache,
                       captured, seen, deepseek_api_key, insight_cache,
                       network_calls>>

\* Chatbott.py's recommend_investment, which takes no risk profile
ChatbottRecommendInvestment ==
    /\ op' = [name |-> "Chatbott.recommend_investment"]
    /\ ret' = Chatbott_recommend_investment(heap[crypto_db])
    /\ raised' = FALSE
    /\ UNCHANGED <<heap, crypto_db, last_updated, now, ticks, price_cache, captured,
                   seen, deepseek_api_key, insight_cache, network_calls>>

GetAiInsight ==
    /\ network_calls < MaxCalls
    /\ \E q \in Questions, o \in Outcomes :
          LET r == cached_ai_insight(insight_cache, deepseek_api_key, q, o, now)
          IN  /\ op' = [name |-> "get_ai_insight", arg |-> q,
                        outcome |-> IF r.attempts = 1 THEN o ELSE [kind |-> "none"],
                        computed |-> r.computed, calls_before |-> network_calls]
              /\ ret' = r.value
              /\ raised' = r.raised
              /\ network_calls' = network_calls + r.attempts
              /\ insight_cache' = [insight_cache EXCEPT ![q] = r.slot]
    /\ UNCHANGED <<heap, crypto_db, last_updated, now, ticks, price_cache, captured,
                   seen>>
    /\ UNCHANGED deepseek_api_key

Next ==
    \/ TickSecond
    \/ TickMinute
    \/ TickFiveMinutes
    \/ RefreshData
    \/ Capture
    \/ GetLivePrice
    \/ ChatbottGetLivePrice
    \/ AnalyzeTrends
    \/ GetSustainableCoins
    \/ RecommendInvestment
    \/ ChatbottRecommendInvestment
    \/ GetAiInsight

Spec == Init /\ [][Next]_vars

-----------------------------------------------------------------------------
(* The catalog functions over every small catalog *)

Attributes == Trends \X MarketCaps \X Scores

\* the catalog of n entries with the attributes f gives them
CatalogOf(n, f) ==
    [i \in 1..n |-> Entry(CoinNames[i], f[i][1], f[i][2], f[i][3], 0)]

InitCatalog ==
    /\ \/ \E n \in 0..MaxCoins : \E f \in [1..n -> Attributes] :
             heap = <<CatalogOf(n, f)>>
       \/ heap = <<initialize_crypto_db(EmptyPriceCache, 0, {}).db>>
    /\ crypto_db = 1
    /\ last_updated = None
    /\ now = 0
    /\ ticks = 0
    /\ price_cache = EmptyPriceCache
    /\ captured = 0
    /\ seen = <<>>
    /\ deepseek_api_key = None
    /\ insight_cache = EmptyInsightCache
    /\ network_calls = 0
    /\ op = [name |-> "none"]
    /\ ret = None
    /\ raised = FALSE

\* the two rankings
NextClassify == AnalyzeTrends \/ GetSustainableCoins

SpecClassify == InitCatalog /\ [][NextClassify]_vars

\* the recommendation
NextRecommend == RecommendInvestment \/ ChatbottRecommendInvestment

SpecRecommend == InitCatalog /\ [][NextRecommend]_vars

\* building and refreshing the catalog, with callers holding on to catalogs
InitRefresh == \E failing \in FailureSets : Constructed(failing, None)

NextRefresh == TickSecond \/ TickFiveMinutes \/ RefreshData \/ Capture

SpecRefresh == InitRefresh /\ [][NextRefresh]_vars

\* the oracle, called directly and by the builds of the catalog
NextOracle ==
    \/ TickSecond
    \/ TickFiveMinutes
    \/ RefreshData
    \/ GetLivePrice
    \/ ChatbottGetLivePrice

SpecOracle == InitRefresh /\ [][NextOracle]_vars

\* the AI-insight call
InitInsight == \E key \in ApiKeys : Constructed({}, key)

NextInsight == TickSecond \/ TickMinute \/ GetAiInsight

SpecInsight == InitInsight /\ [][NextInsight]_vars

-----------------------------------------------------------------------------
(* Claims *)

Catalog == heap[crypto_db]

Range(s) == {s[i] : i \in 1..Len(s)}

\* every market_cap of the catalog is a number of USD
NumericCatalog(db) == \A e \in Entries(db) : IsUsd(e.market_cap)

RECURSIVE lstrip(_)
lstrip(s) == IF s # <<>> /\ Head(s) = " " THEN lstrip(Tail(s)) ELSE s

RECURSIVE rstrip(_)
rstrip(s) ==
    IF s # <<>> /\ s[Len(s)] = " " THEN rstrip(SubSeq(s, 1, Len(s) - 1)) ELSE s

\* the profile a string stands for: trimmed and lowercased, moderate when that
\* is neither conservative nor aggressive
canon(p) ==
    LET q == lower(lstrip(rstrip(p)))
    IN  IF q \in {s_conservative, s_aggressive} THEN q ELSE s_moderate

\* C1: over a catalog of numeric market caps, recommend_investment("conservative")
\* returns exactly the assets whose market_cap is above 100e9.
C1_ConservativeLargeCap ==
    (op.name = "recommend_investment" /\ op.arg = s_conservative
        /\ NumericCatalog(Catalog))
    => Range(ret) = {e.coin : e \in {x \in Entries(Catalog) :
                                        x.market_cap.usd_bn > 100}}

\* C2: recommend_investment("aggressive") never returns a rising asset of high
\* market cap, and over a catalog of numeric market caps it returns exactly the
\* rising assets whose market_cap is below 50e9.
C2_AggressiveSmallCapMomentum ==
    (op.name = "recommend_investment" /\ op.arg = s_aggressive)
    => /\ \A e \in Entries(Catalog) :
             (e.price_trend = "rising" /\ e.market_cap = Category("high"))
             => e.coin \notin Range(ret)
       /\ NumericCatalog(Catalog)
          => Range(ret) = {e.coin : e \in {x \in Entries(Catalog) :
                              x.price_trend = "rising" /\ x.market_cap.usd_bn < 50}}

\* C3: recommend_investment("moderate") never returns an asset whose
\* sustainability_score is below 0.5, and over a catalog of numeric market caps
\* it returns exactly the assets with market_cap above 10e9 and
\* sustainability_score at least 0.5, whatever their price_trend.
C3_ModerateSustainable ==
    (op.name = "recommend_investment" /\ op.arg = s_moderate)
    => /\ \A e \in Entries(Catalog) :
             e.sustainability_score < 5 => e.coin \notin Range(ret)
       /\ NumericCatalog(Catalog)
          => Range(ret) = {e.coin : e \in {x \in Entries(Catalog) :
                              x.market_cap.usd_bn > 10 /\ x.sustainability_score >= 5}}

\* C4: recommend_investment(p) returns what it returns for the profile p stands
\* for once trimmed and lowercased (moderate when unrecognized).
C4_ProfileCanonical ==
    op.name = "recommend_investment"
    => ret = recommend_investment(Catalog, canon(op.arg))

C6_RankingStable ==
    op.name = "get_sustainable_coins"
    => /\ Len(ret) = Len(Catalog)
       /\ {ret[i][1] : i \in 1..Len(ret)} = Coins(Catalog)
       /\ \A i \in 1..Len(ret) :
             ret[i][2] = Lookup(Catalog, ret[i][1]).sustainability_score
       /\ \A i, j \in 1..Len(ret) :
             i < j => /\ ret[i][2] >= ret[j][2]
                      /\ ret[i][2] = ret[j][2]
                         => Position(Catalog, ret[i][1]) < Position(Catalog, ret[j][1])

\* get_sustainable_coins has ranked a catalog holding two records of equal score
C6_Witness ==
    /\ op.name = "get_sustainable_coins"
    /\ \E i, j \in 1..Len(ret) : i < j /\ ret[i][2] = ret[j][2]

\* C7: refresh_data binds crypto_db to a newly built catalog, and a catalog a
\* caller holds a reference to still shows what it showed when the reference
\* was taken, whatever refreshes and price changes have happened since.
C7_SnapshotImmutable ==
    /\ captured # 0 => heap[captured] = seen
    /\ (op.name = "refresh_data" /\ ~raised) => crypto_db = Len(heap)

\* a reference taken before a refresh, and a refreshed catalog whose prices differ
C7_Witness ==
    /\ op.name = "refresh_data"
    /\ captured # 0
    /\ captured # crypto_db
    /\ \E i \in 1..Len(seen) :
          Catalog[i].current_price # seen[i].current_price

\* C8: with no credential, get_ai_insight returns exactly "API key not
\* configured" and no network call has been made.
C8_NoKeySentinel ==
    (op.name = "get_ai_insight" /\ (deepseek_api_key = None \/ deepseek_api_key = ""))
    => /\ ret = Str("API key not configured")
       /\ network_calls = 0

\* C9: _get_live_price lets no exception out; it returns 0 for an id the oracle
\* has no entry for and when its computation fails; a catalog is built with
\* price 0 for an asset whose price computation failed, with the oracle's price
\* for each other asset it asked the oracle for, and with the cached price for
\* the rest; no price of a catalog is negative.
C9_PriceNeverRaises ==
    /\ raised = FALSE
    /\ op.name = "_get_live_price"
       => /\ ret >= 0
          /\ (op.arg \notin CoinIds \/ op.failed # {}) => ret = 0
    /\ op.name = "Chatbott._get_live_price"
       => /\ ret >= 0
          /\ op.arg \notin DOMAIN Chatbott_mock_prices => ret = 0
    /\ op.name \in {"__init__", "refresh_data"}
       => \A i \in 1..Len(catalog_table) :
             LET id == catalog_table[i].id
                 price == Catalog[i].current_price
             IN  /\ id \in op.failed => price = 0
                 /\ id \in op.computed \ op.failed
                    => price = jittered(mock_base[id], price_cache[id][1].at)
                 /\ price = price_cache[id][1].value
    /\ \A k \in 1..Len(heap) : \A e \in Entries(heap[k]) : e.current_price >= 0

\* a refresh during which one price computation failed: that asset at 0, others not
C9_Witness ==
    /\ op.name = "refresh_data"
    /\ op.failed # {}
    /\ \E i \in 1..Len(catalog_table) :
          catalog_table[i].id \in op.failed /\ Catalog[i].current_price = 0
    /\ \E i \in 1..Len(catalog_table) :
          catalog_table[i].id \notin op.failed /\ Catalog[i].current_price > 0

\* C10: with a credential, a call of get_ai_insight that reaches the network
\* makes one attempt, lets no exception out and returns a str, whatever the
\* attempt comes to; with choices absent or empty it returns the output field.
C10_InsightAlwaysString ==
    (op.name = "get_ai_insight" /\ op.computed
        /\ deepseek_api_key # None /\ deepseek_api_key # "")
    => /\ network_calls = op.calls_before + 1
       /\ raised = FALSE
       /\ ret.type = "str"
       /\ (op.outcome.kind = "json" /\ op.outcome.top = "object"
              /\ op.outcome.choices \in {"absent", "empty"}
              /\ op.outcome.output = "str")
          => ret = Str("output")

\* C11: over a non-empty catalog recommend_investment returns a non-empty list,
\* whatever the risk profile: when its filter matches no coin it returns every
\* coin of the catalog, and it returns the empty list only for the empty catalog.
C11_NonEmptyRecommendation ==
    /\ op.name \in {"recommend_investment", "Chatbott.recommend_investment"}
       => /\ Catalog # <<>> => ret # <<>>
          /\ Range(ret) \subseteq Coins(Catalog)
    /\ (op.name = "recommend_investment"
           /\ recommend_investment(Catalog, op.arg) = <<>>)
       => ret = keys(Catalog)
    /\ (op.name = "Chatbott.recommend_investment"
           /\ Chatbott_profitable(Catalog) = <<>>)
       => ret = keys(Catalog)

====
